---- MODULE Spec2Model ----
(***************************************************************************)
(* Turn processing and dual-mode persistence of the chat backend:          *)
(*   - the in-memory temporary session store (services/temporary_sessions) *)
(*   - the durable store (SQLite through SQLAlchemy: conversations,        *)
(*     messages)                                                           *)
(*   - POST /api/chat/stream, POST /api/chat/send, PUT /api/chat/messages, *)
(*     DELETE /api/conversations/{id}                                      *)
(*   - the upstream streaming client (services/openrouter)                 *)
(* Every request is an asyncio task; a task can be interleaved with other  *)
(* tasks at each await, so each action below is the code between two       *)
(* awaits (one database round trip, one upstream read).                    *)
(***************************************************************************)
EXTENDS Integers, Sequences, FiniteSets, TLC

(***************************************************************************)
(* Bounds of the model                                                     *)
(***************************************************************************)
\* request slots: two turns, which may run one after the other or
\* concurrently; t1 names the request that arrives first
Turns == {"t1", "t2"}
\* chunks one upstream response yields before it must end or fail
MaxChunks == 2
\* the seconds of the database clock (CURRENT_TIMESTAMP) are 0..MaxTime
MaxTime == 1
\* calls a direct caller makes on the temporary session store
MaxCalls == 4

(***************************************************************************)
(* Values                                                                  *)
(***************************************************************************)
\* Python's None for the string-valued optional fields
None == "None"
\* Python's None for ChatRequest.conversation_id (an Optional[int])
NoId == 0

\* request.model: each slot asks for a model of its own, so that the model
\* of a request differs from the model of a conversation another turn made
RequestModels(t) == IF t = "t1" THEN {"x/y"} ELSE {"p/q"}
\* request.message with request.image_url: a text turn, and for the first
\* slot an image turn too
Bodies(t) ==
    {[message |-> "hello", image_url |-> None]}
        \cup (IF t = "t1" THEN {[message |-> "look", image_url |-> "img"]} ELSE {})
\* ids a caller may put in ChatRequest.conversation_id
RequestIds == {NoId, -1, 1}
\* the text of the k-th content delta of an upstream response
Chunk(k) == CASE k = 1 -> "a" [] k = 2 -> "b" [] k = 3 -> "c" [] OTHER -> "d"
\* the content of a non-streaming completion
Completions == {"answer"}
\* HTTP status codes raise_for_status() can raise for
StatusCodes == {429, 404, 401, 503, 500}
EditContents == {"edited"}

\* the lines response.aiter_lines() can deliver (Server-Sent Events) once
\* n content deltas were read
Lines(n) ==
    {[kind |-> "content", text |-> Chunk(n + 1)]}
        \cup {[kind |-> k, text |-> ""] :
                k \in {"blank", "no_data_prefix", "bad_json", "no_content"}}

VARIABLES
    conversations,        \* table conversations: set of rows
    messages,             \* table messages: set of rows
    next_conv_id,         \* next primary key of conversations
    next_msg_id,          \* next primary key of messages
    now,                  \* the database clock, in seconds
    temporary_sessions,   \* _temporary_sessions: session id -> list of dicts
    next_session_id,      \* _next_session_id
    turn,                 \* the chat requests in flight, per slot
    edit,                 \* the edit_message request in flight
    del,                  \* the delete_conversation request in flight
    calls                 \* the calls made on the session store by a
                          \* direct caller, with what each returned

vars == <<conversations, messages, next_conv_id, next_msg_id, now,
          temporary_sessions, next_session_id, turn, edit, del, calls>>

durable == <<conversations, messages, next_conv_id, next_msg_id>>
ephemeral == <<temporary_sessions, next_session_id>>

(***************************************************************************)
(* Helpers                                                                 *)
(***************************************************************************)
RECURSIVE Concat(_)
\* "".join(fragments)
Concat(s) == IF s = <<>> THEN "" ELSE Head(s) \o Concat(Tail(s))

RECURSIVE SortRows_NewestTieFirst(_)
\* mutant: rows of equal timestamp come newest first
SortRows_NewestTieFirst(rows) ==
    IF rows = {} THEN <<>>
    ELSE LET first == CHOOSE m \in rows :
                        \A o \in rows :
                            \/ m.timestamp < o.timestamp
                            \/ (m.timestamp = o.timestamp /\ m.id >= o.id)
         IN <<first>> \o SortRows_NewestTieFirst(rows \ {first})

RECURSIVE SortRows(_)
\* rows ordered by (timestamp, id): ORDER BY timestamp ASC, rows of equal
\* timestamp in primary-key order, which is the order SQLite returns them in
SortRows(rows) ==
    IF rows = {} THEN <<>>
    ELSE LET first == CHOOSE m \in rows :
                        \A o \in rows :
                            \/ m.timestamp < o.timestamp
                            \/ (m.timestamp = o.timestamp /\ m.id <= o.id)
         IN <<first>> \o SortRows(rows \ {first})


\* Python truthiness of an optional string
Truthy(s) == s # None /\ s # ""

\* d[k] = v, adding the key when it is absent
SetKey(d, k, v) == [x \in DOMAIN d \cup {k} |-> IF x = k THEN v ELSE d[x]]

\* mutant: the id is derived from the number of live sessions
create_temporary_session_FromCount(sessions, next_id) ==
    LET id == 0 - (Cardinality(DOMAIN sessions) + 1)
    IN [session_id |-> id, next_id |-> id - 1,
        sessions |-> SetKey(sessions, id, <<>>)]

(***************************************************************************)
(* services/temporary_sessions.py                                          *)
(* Each operator takes the module globals and returns their new value.    *)
(***************************************************************************)
\* create_temporary_session(): result.session_id is the returned id
create_temporary_session(sessions, next_id) ==
    [session_id |-> next_id,
     next_id    |-> next_id - 1,
     sessions   |-> SetKey(sessions, next_id, <<>>)]

\* the dict add_message_to_session builds; an absent key is None. The
\* "timestamp" key (datetime.utcnow()) is written and never read: left out.
SessionMessage(role, content, model_name, image_url) ==
    [role       |-> role,
     content    |-> content,
     model_name |-> IF Truthy(model_name) THEN model_name ELSE None,
     image_url  |-> IF Truthy(image_url) THEN image_url ELSE None]

\* mutant: the list is rebuilt from the new message alone
add_message_to_session_Replace(sessions, session_id, role, content, model_name, image_url) ==
    SetKey(sessions, session_id,
           <<SessionMessage(role, content, model_name, image_url)>>)

\* mutant: insert(0, message) in place of append(message)
add_message_to_session_Prepend(sessions, session_id, role, content, model_name, image_url) ==
    LET live == IF session_id \in DOMAIN sessions
                THEN sessions ELSE SetKey(sessions, session_id, <<>>)
    IN [live EXCEPT ![session_id] =
           <<SessionMessage(role, content, model_name, image_url)>> \o @]

add_message_to_session(sessions, session_id, role, content, model_name, image_url) ==
    LET live == IF session_id \in DOMAIN sessions
                THEN sessions
                ELSE SetKey(sessions, session_id, <<>>)
    IN [live EXCEPT ![session_id] =
            Append(@, SessionMessage(role, content, model_name, image_url))]

\* mutant: an unknown id falls back to a session that is live
get_session_messages_Fallback(sessions, session_id) ==
    IF session_id \in DOMAIN sessions THEN sessions[session_id]
    ELSE IF DOMAIN sessions = {} THEN <<>>
    ELSE sessions[CHOOSE x \in DOMAIN sessions : TRUE]

get_session_messages(sessions, session_id) ==
    IF session_id \in DOMAIN sessions THEN sessions[session_id] ELSE <<>>

(***************************************************************************)
(* The durable rows                                                        *)
(***************************************************************************)
\* Conversation(title=..., model_name=...) after commit and refresh; title
\* and created_at are never read by the turn processing: left out
ConversationRow(id, model_name) ==
    [id |-> id, model_name |-> model_name]

\* Message(...) after commit: id and timestamp are assigned by the database
MessageRow(id, conversation_id, role, content, model_name, image_url, ts) ==
    [id              |-> id,
     conversation_id |-> conversation_id,
     role            |-> role,
     content         |-> content,
     model_name      |-> model_name,
     image_url       |-> image_url,
     timestamp       |-> ts]

\* select(Message).where(conversation_id == cid).order_by(timestamp.asc())
MessagesOf(rows, cid) == SortRows({m \in rows : m.conversation_id = cid})

(***************************************************************************)
(* History assembly: stored turns -> provider messages.                    *)
(* A text turn is {role, content}. A turn with an image carries a list of  *)
(* two parts under "content"; the list is kept under the key               *)
(* content_parts here, so that a text message and an image message are    *)
(* records of different shapes.                                            *)
(***************************************************************************)
\* mutant: the image of a turn is not passed on
ProviderMessage_TextOnly(role, content, image_url) ==
    [role |-> role, content |-> content]

ProviderMessage(role, content, image_url) ==
    IF Truthy(image_url)
    THEN [role |-> role,
          content_parts |->
              <<[type |-> "text", text |-> content],
                [type |-> "image_url", image_url |-> [url |-> image_url]]>>]
    ELSE [role |-> role, content |-> content]

\* the loop of send_message over all_messages
chat_history_send(all_messages) ==
    [i \in 1..Len(all_messages) |->
        ProviderMessage(all_messages[i].role, all_messages[i].content,
                        all_messages[i].image_url)]

\* the loop of send_message_stream over the dicts of the temporary session
chat_history_temporary(all_messages) ==
    [i \in 1..Len(all_messages) |->
        ProviderMessage(all_messages[i].role, all_messages[i].content,
                        all_messages[i].image_url)]

\* the loop of send_message_stream over the rows of the conversation
chat_history_durable(all_messages) ==
    [i \in 1..Len(all_messages) |->
        ProviderMessage(all_messages[i].role, all_messages[i].content,
                        all_messages[i].image_url)]

(***************************************************************************)
(* services/openrouter.py: the error fragments of chat_completion_stream   *)
(* (abbreviated texts, one per branch)                                     *)
(***************************************************************************)
StreamStatusMessage(status_code) ==
    CASE status_code = 429 -> "[429 too many requests]"
      [] status_code = 404 -> "[404 model not found]"
      [] status_code = 401 -> "[401 invalid api key]"
      [] status_code = 503 -> "[503 service unavailable]"
      [] OTHER             -> "[unexpected http error]"

StreamTransportMessage == "[connection error]"

ErrorFragments ==
    {StreamStatusMessage(c) : c \in StatusCodes} \cup {StreamTransportMessage}

(***************************************************************************)
(* Requests                                                                *)
(***************************************************************************)
\* ChatRequest: conversation_id is Optional[int] with gt=0
ValidChatRequest(conversation_id) ==
    conversation_id = NoId \/ conversation_id > 0

IdleTurn ==
    [pc              |-> "idle",
     endpoint        |-> "none",
     is_temporary    |-> FALSE,
     conversation_id |-> NoId,      \* request.conversation_id
     model           |-> None,      \* request.model
     message         |-> "",        \* request.message
     image_url       |-> None,      \* request.image_url
     conversation    |-> NoId,      \* conversation.id of the resolved row
     session_id      |-> NoId,      \* the X-Conversation-Id of the stream
     user_message    |-> NoId,      \* user_message.id after commit
     chat_history    |-> <<>>,
     full_response   |-> "",
     forwarded       |-> <<>>,      \* chunks handed to StreamingResponse
     outcome         |-> "none"]    \* how the upstream call ended

\* the turn of a request that is refused before its body is used
Refused(pc, endpoint, is_temporary, conversation_id) ==
    [IdleTurn EXCEPT !.pc = pc,
                     !.endpoint = endpoint,
                     !.is_temporary = is_temporary,
                     !.conversation_id = conversation_id]

\* the turn of an accepted request
Request(endpoint, is_temporary, conversation_id, model, body) ==
    [IdleTurn EXCEPT !.endpoint = endpoint,
                     !.is_temporary = is_temporary,
                     !.conversation_id = conversation_id,
                     !.model = model,
                     !.message = body.message,
                     !.image_url = body.image_url]

IdleEdit ==
    [pc |-> "idle", message_id |-> NoId, content |-> "",
     conversation_id |-> NoId, timestamp |-> 0, deleted_count |-> 0]

IdleDelete == [pc |-> "idle", conversation_id |-> NoId, loaded |-> {}]

Init ==
    /\ conversations = {}
    /\ messages = {}
    /\ next_conv_id = 1
    /\ next_msg_id = 1
    /\ now = 0
    /\ temporary_sessions = <<>>
    /\ next_session_id = -1
    /\ turn = [t \in Turns |-> IdleTurn]
    /\ edit = IdleEdit
    /\ del = IdleDelete
    /\ calls = <<>>

(***************************************************************************)
(* routers/chat.py: arrival of a chat request                              *)
(***************************************************************************)
\* slot t is free and the requests before it have arrived
Arrives(t) ==
    /\ turn[t].pc = "idle"
    /\ t = "t2" => turn["t1"].pc # "idle"

\* pydantic refuses the body (conversation_id not > 0): the handler never runs
RejectInvalid(t) ==
    /\ Arrives(t)
    /\ \E endpoint \in {"stream", "send"}, is_temporary \in BOOLEAN,
          conversation_id \in RequestIds :
        /\ ~ValidChatRequest(conversation_id)
        /\ turn' = [turn EXCEPT ![t] =
              Refused("REJECTED", endpoint, is_temporary, conversation_id)]
    /\ UNCHANGED <<durable, ephemeral, now, edit, del, calls>>

\* mutant: the flag is looked at after the session has been allocated
SendRejectTemporary_AfterCreate(t) ==
    /\ Arrives(t)
    /\ \E conversation_id \in RequestIds :
        /\ ValidChatRequest(conversation_id)
        /\ turn' = [turn EXCEPT ![t] =
              Refused("REJECTED", "send", TRUE, conversation_id)]
    /\ temporary_sessions' =
          create_temporary_session(temporary_sessions, next_session_id).sessions
    /\ next_session_id' = next_session_id - 1
    /\ UNCHANGED <<durable, now, edit, del, calls>>

\* send_message with is_temporary: ValidationException before anything else
SendRejectTemporary(t) ==
    /\ Arrives(t)
    /\ \E conversation_id \in RequestIds :
        /\ ValidChatRequest(conversation_id)
        /\ turn' = [turn EXCEPT ![t] =
              Refused("REJECTED", "send", TRUE, conversation_id)]
    /\ UNCHANGED <<durable, ephemeral, now, edit, del, calls>>

\* mutant: the rows of the conversation the request names are sent as well
StreamTemporary_WithConversation(t) ==
    /\ Arrives(t)
    /\ \E conversation_id \in RequestIds, model \in RequestModels(t),
          body \in Bodies(t) :
        /\ ValidChatRequest(conversation_id)
        /\ LET existing == conversation_id # NoId /\ conversation_id < 0
               created == create_temporary_session(temporary_sessions, next_session_id)
               session_id == IF existing THEN conversation_id ELSE created.session_id
               sessions1 == IF existing THEN temporary_sessions ELSE created.sessions
               next1 == IF existing THEN next_session_id ELSE created.next_id
               sessions2 == add_message_to_session(sessions1, session_id, "user",
                                                   body.message, None, body.image_url)
               all_messages == get_session_messages(sessions2, session_id)
           IN /\ temporary_sessions' = sessions2
              /\ next_session_id' = next1
              /\ turn' = [turn EXCEPT ![t] =
                    [Request("stream", TRUE, conversation_id, model, body)
                        EXCEPT !.pc = "UPSTREAM_CALLED",
                               !.session_id = session_id,
                               !.chat_history =
                                   chat_history_durable(MessagesOf(messages, conversation_id))
                                       \o chat_history_temporary(all_messages)]]
    /\ UNCHANGED <<durable, now, edit, del, calls>>

\* mutant: the header carries the id of the request when it has one
StreamTemporary_HeaderEcho(t) ==
    /\ Arrives(t)
    /\ \E conversation_id \in RequestIds, model \in RequestModels(t),
          body \in Bodies(t) :
        /\ ValidChatRequest(conversation_id)
        /\ LET existing == conversation_id # NoId /\ conversation_id < 0
               created == create_temporary_session(temporary_sessions, next_session_id)
               session_id == IF existing THEN conversation_id ELSE created.session_id
               sessions1 == IF existing THEN temporary_sessions ELSE created.sessions
               next1 == IF existing THEN next_session_id ELSE created.next_id
               sessions2 == add_message_to_session(sessions1, session_id, "user",
                                                   body.message, None, body.image_url)
               all_messages == get_session_messages(sessions2, session_id)
           IN /\ temporary_sessions' = sessions2
              /\ next_session_id' = next1
              /\ turn' = [turn EXCEPT ![t] =
                    [Request("stream", TRUE, conversation_id, model, body)
                        EXCEPT !.pc = "UPSTREAM_CALLED",
                               !.session_id = IF conversation_id # NoId
                                                THEN conversation_id ELSE session_id,
                               !.chat_history = chat_history_temporary(all_messages)]]
    /\ UNCHANGED <<durable, now, edit, del, calls>>

\* mutant: any id of the request is taken for a session id
StreamTemporary_AnyId(t) ==
    /\ Arrives(t)
    /\ \E conversation_id \in RequestIds, model \in RequestModels(t),
          body \in Bodies(t) :
        /\ ValidChatRequest(conversation_id)
        /\ LET existing == conversation_id # NoId
               created == create_temporary_session(temporary_sessions, next_session_id)
               session_id == IF existing THEN conversation_id ELSE created.session_id
               sessions1 == IF existing THEN temporary_sessions ELSE created.sessions
               next1 == IF existing THEN next_session_id ELSE created.next_id
               sessions2 == add_message_to_session(sessions1, session_id, "user",
                                                   body.message, None, body.image_url)
               all_messages == get_session_messages(sessions2, session_id)
           IN /\ temporary_sessions' = sessions2
              /\ next_session_id' = next1
              /\ turn' = [turn EXCEPT ![t] =
                    [Request("stream", TRUE, conversation_id, model, body)
                        EXCEPT !.pc = "UPSTREAM_CALLED",
                               !.session_id = session_id,
                               !.chat_history = chat_history_temporary(all_messages)]]
    /\ UNCHANGED <<durable, now, edit, del, calls>>

\* send_message_stream, temporary branch: no await from the arrival of the
\* request to the return of the StreamingResponse, whose generator posts
\* chat_history to the provider
StreamTemporary(t) ==
    /\ Arrives(t)
    /\ \E conversation_id \in RequestIds, model \in RequestModels(t),
          body \in Bodies(t) :
        /\ ValidChatRequest(conversation_id)
        /\ LET existing == conversation_id # NoId /\ conversation_id < 0
               created == create_temporary_session(temporary_sessions, next_session_id)
               session_id == IF existing THEN conversation_id ELSE created.session_id
               sessions1 == IF existing THEN temporary_sessions ELSE created.sessions
               next1 == IF existing THEN next_session_id ELSE created.next_id
               sessions2 == add_message_to_session(sessions1, session_id, "user",
                                                   body.message, None, body.image_url)
               all_messages == get_session_messages(sessions2, session_id)
           IN /\ temporary_sessions' = sessions2
              /\ next_session_id' = next1
              /\ turn' = [turn EXCEPT ![t] =
                    [Request("stream", TRUE, conversation_id, model, body)
                        EXCEPT !.pc = "UPSTREAM_CALLED",
                               !.session_id = session_id,
                               !.chat_history = chat_history_temporary(all_messages)]]
    /\ UNCHANGED <<durable, now, edit, del, calls>>

\* mutant: the row is not looked up, the id of the request is taken as it is
FindConversation_NoLookup(t) ==
    /\ Arrives(t)
    /\ \E endpoint \in {"stream", "send"}, conversation_id \in RequestIds,
          model \in RequestModels(t), body \in Bodies(t) :
        /\ ValidChatRequest(conversation_id)
        /\ conversation_id # NoId
        /\ turn' = [turn EXCEPT ![t] =
              [Request(endpoint, FALSE, conversation_id, model, body)
                  EXCEPT !.pc = "START", !.conversation = conversation_id]]
    /\ UNCHANGED <<durable, ephemeral, now, edit, del, calls>>

\* durable branch with a conversation id: the select of the conversation,
\* ConversationNotFoundException when there is no such row
FindConversation(t) ==
    /\ Arrives(t)
    /\ \E endpoint \in {"stream", "send"}, conversation_id \in RequestIds,
          model \in RequestModels(t), body \in Bodies(t) :
        /\ ValidChatRequest(conversation_id)
        /\ conversation_id # NoId
        /\ turn' = [turn EXCEPT ![t] =
              IF \E c \in conversations : c.id = conversation_id
              THEN [Request(endpoint, FALSE, conversation_id, model, body)
                       EXCEPT !.pc = "START", !.conversation = conversation_id]
              ELSE Refused("NOT_FOUND", endpoint, FALSE, conversation_id)]
    /\ UNCHANGED <<durable, ephemeral, now, edit, del, calls>>

\* mutant: the user message goes to the conversation before the new one
CreateConversation_WrongId(t) ==
    /\ Arrives(t)
    /\ \E endpoint \in {"stream", "send"}, model \in RequestModels(t),
          body \in Bodies(t) :
        /\ conversations' = conversations \cup {ConversationRow(next_conv_id, model)}
        /\ next_conv_id' = next_conv_id + 1
        /\ turn' = [turn EXCEPT ![t] =
              [Request(endpoint, FALSE, NoId, model, body)
                  EXCEPT !.pc = "START", !.conversation = next_conv_id - 1]]
    /\ UNCHANGED <<messages, next_msg_id, ephemeral, now, edit, del, calls>>

\* durable branch without a conversation id: insert, commit, refresh
CreateConversation(t) ==
    /\ Arrives(t)
    /\ \E endpoint \in {"stream", "send"}, model \in RequestModels(t),
          body \in Bodies(t) :
        /\ conversations' = conversations \cup {ConversationRow(next_conv_id, model)}
        /\ next_conv_id' = next_conv_id + 1
        /\ turn' = [turn EXCEPT ![t] =
              [Request(endpoint, FALSE, NoId, model, body)
                  EXCEPT !.pc = "START", !.conversation = next_conv_id]]
    /\ UNCHANGED <<messages, next_msg_id, ephemeral, now, edit, del, calls>>

\* mutant: the user message is added to the session and never committed
RecordUser_NoCommit(t) ==
    /\ turn[t].pc = "START"
    /\ turn' = [turn EXCEPT
          ![t].pc = "USER_RECORDED",
          ![t].session_id = IF turn[t].endpoint = "stream"
                            THEN turn[t].conversation ELSE NoId]
    /\ UNCHANGED <<durable, ephemeral, now, edit, del, calls>>

\* The clock of the database is read when a message is inserted
\* (server_default=func.now()): the insert falls in the second of the last
\* insert or in a later one. Only the order of timestamps is ever read, so
\* a second that no row carries is not counted.
InsertTimes ==
    {now} \cup (IF now < MaxTime /\ (\E m \in messages : m.timestamp = now)
               THEN {now + 1} ELSE {})

\* mutant: the user message is written with the model of the request
RecordUser_WithModel(t) ==
    /\ turn[t].pc = "START"
    /\ \E ts \in InsertTimes :
        /\ now' = ts
        /\ messages' = messages
              \cup {MessageRow(next_msg_id, turn[t].conversation, "user",
                               turn[t].message, turn[t].model,
                               turn[t].image_url, ts)}
    /\ next_msg_id' = next_msg_id + 1
    /\ turn' = [turn EXCEPT
          ![t].pc = "USER_RECORDED",
          ![t].session_id = IF turn[t].endpoint = "stream"
                            THEN turn[t].conversation ELSE NoId,
          ![t].user_message = next_msg_id]
    /\ UNCHANGED <<conversations, next_conv_id, ephemeral, edit, del, calls>>

\* durable branch: insert of the user message and commit
RecordUser(t) ==
    /\ turn[t].pc = "START"
    /\ \E ts \in InsertTimes :
        /\ now' = ts
        /\ messages' = messages
              \cup {MessageRow(next_msg_id, turn[t].conversation, "user",
                               turn[t].message, None, turn[t].image_url, ts)}
    /\ next_msg_id' = next_msg_id + 1
    /\ turn' = [turn EXCEPT
          ![t].pc = "USER_RECORDED",
          ![t].session_id = IF turn[t].endpoint = "stream"
                            THEN turn[t].conversation ELSE NoId,
          ![t].user_message = next_msg_id]
    /\ UNCHANGED <<conversations, next_conv_id, ephemeral, edit, del, calls>>

\* mutant: a failure of the select is reported as a failed stream
AssembleHistory_Fails(t) ==
    /\ turn[t].pc = "USER_RECORDED"
    /\ turn' = [turn EXCEPT ![t].pc = "ENDED", ![t].outcome = "transport_error"]
    /\ UNCHANGED <<durable, ephemeral, now, edit, del, calls>>

\* durable branch: select of the conversation's messages and chat_history,
\* which is then posted to the provider as {model, messages: chat_history}
AssembleHistory(t) ==
    /\ turn[t].pc = "USER_RECORDED"
    /\ LET all_messages == MessagesOf(messages, turn[t].conversation)
       IN turn' = [turn EXCEPT
             ![t].pc = "UPSTREAM_CALLED",
             ![t].chat_history = IF turn[t].endpoint = "stream"
                                 THEN chat_history_durable(all_messages)
                                 ELSE chat_history_send(all_messages)]
    /\ UNCHANGED <<durable, ephemeral, now, edit, del, calls>>

(***************************************************************************)
(* generate_stream over chat_completion_stream                             *)
(***************************************************************************)
\* mutant: the chunk is put in front of the accumulated text
Forward_Prepend(tr, chunk) ==
    [tr EXCEPT !.full_response = chunk \o @,
               !.forwarded = Append(@, chunk)]

\* one chunk of the async for: full_response += chunk; yield chunk
Forward(tr, chunk) ==
    [tr EXCEPT !.full_response = @ \o chunk,
               !.forwarded = Append(@, chunk)]

\* the response arrives with a success status: raise_for_status() passes
UpstreamOpen(t) ==
    /\ turn[t].pc = "UPSTREAM_CALLED"
    /\ turn[t].endpoint = "stream"
    /\ turn' = [turn EXCEPT ![t].pc = "STREAMING"]
    /\ UNCHANGED <<durable, ephemeral, now, edit, del, calls>>

\* raise_for_status() raises HTTPStatusError: the except branch yields one
\* error text, which generate_stream treats as any other chunk; the
\* generator is then exhausted and the async for ends
UpstreamStatusError(t) ==
    /\ turn[t].pc = "UPSTREAM_CALLED"
    /\ turn[t].endpoint = "stream"
    /\ \E status_code \in StatusCodes :
        turn' = [turn EXCEPT ![t] =
            [Forward(turn[t], StreamStatusMessage(status_code))
                EXCEPT !.pc = "ENDED", !.outcome = "http_error"]]
    /\ UNCHANGED <<durable, ephemeral, now, edit, del, calls>>

\* mutant: the except branch logs the error and yields nothing
UpstreamTransportError_Silent(t) ==
    /\ turn[t].pc \in {"UPSTREAM_CALLED", "STREAMING"}
    /\ turn[t].endpoint = "stream"
    /\ turn' = [turn EXCEPT ![t].pc = "ENDED", ![t].outcome = "transport_error"]
    /\ UNCHANGED <<durable, ephemeral, now, edit, del, calls>>

\* httpx.HTTPError other than a status error (connect, read, timeout),
\* while connecting or between two lines: one error text, then the end
UpstreamTransportError(t) ==
    /\ turn[t].pc \in {"UPSTREAM_CALLED", "STREAMING"}
    /\ turn[t].endpoint = "stream"
    /\ turn' = [turn EXCEPT ![t] =
          [Forward(turn[t], StreamTransportMessage)
              EXCEPT !.pc = "ENDED", !.outcome = "transport_error"]]
    /\ UNCHANGED <<durable, ephemeral, now, edit, del, calls>>

\* one line of aiter_lines(): a content delta is yielded, any other line
\* (blank, no "data: " prefix, bad JSON, empty content) is skipped
StreamLine(t) ==
    /\ turn[t].pc = "STREAMING"
    /\ Len(turn[t].forwarded) < MaxChunks
    /\ \E line \in Lines(Len(turn[t].forwarded)) :
        turn' = [turn EXCEPT ![t] =
            IF line.kind = "content" THEN Forward(turn[t], line.text) ELSE turn[t]]
    /\ UNCHANGED <<durable, ephemeral, now, edit, del, calls>>

\* "data: [DONE]" (break) or the end of the response body: the async for of
\* generate_stream ends
StreamEnd(t) ==
    /\ turn[t].pc = "STREAMING"
    /\ turn' = [turn EXCEPT ![t].pc = "ENDED", ![t].outcome = "end_of_stream"]
    /\ UNCHANGED <<durable, ephemeral, now, edit, del, calls>>

\* mutant: on cancellation the text accumulated so far is committed
Disconnect_CommitsPartial(t) ==
    /\ turn[t].pc \in {"UPSTREAM_CALLED", "STREAMING"}
    /\ turn[t].endpoint = "stream"
    /\ turn' = [turn EXCEPT ![t].pc = "CANCELLED", ![t].outcome = "cancelled"]
    /\ IF turn[t].is_temporary
       THEN /\ temporary_sessions' =
                  add_message_to_session(temporary_sessions, turn[t].session_id,
                                         "assistant", turn[t].full_response,
                                         turn[t].model, None)
            /\ UNCHANGED <<messages, next_msg_id>>
       ELSE /\ messages' = messages
                  \cup {MessageRow(next_msg_id, turn[t].conversation, "assistant",
                                   turn[t].full_response, turn[t].model, None, now)}
            /\ next_msg_id' = next_msg_id + 1
            /\ UNCHANGED temporary_sessions
    /\ UNCHANGED <<conversations, next_conv_id, next_session_id, now, edit, del, calls>>

\* The caller disconnects while the response is streamed: the task that
\* iterates generate_stream is cancelled at its await (the read of the next
\* line, or the send of a chunk), CancelledError is not an httpx.HTTPError
\* and nothing catches it, so the code after the async for does not run.
\* (A disconnect before the response starts is seen when it starts.)
Disconnect(t) ==
    /\ turn[t].pc \in {"UPSTREAM_CALLED", "STREAMING"}
    /\ turn[t].endpoint = "stream"
    /\ turn' = [turn EXCEPT ![t].pc = "CANCELLED", ![t].outcome = "cancelled"]
    /\ UNCHANGED <<durable, ephemeral, now, edit, del, calls>>

(***************************************************************************)
(* send_message: chat_completion(stream=False)                             *)
(***************************************************************************)
\* mutant: an empty completion is taken for the answer
SendCompletion_StoresEmpty(t) ==
    /\ turn[t].pc = "UPSTREAM_CALLED"
    /\ turn[t].endpoint = "send"
    /\ \/ \E why \in {"http_error", "transport_error"} :
            turn' = [turn EXCEPT ![t].pc = "FAILED", ![t].outcome = why]
       \/ \E ai_message_content \in Completions \cup {""} :
            turn' = [turn EXCEPT ![t].pc = "ENDED",
                                 ![t].outcome = IF ai_message_content = ""
                                                THEN "empty" ELSE "end_of_stream",
                                 ![t].full_response = ai_message_content]
    /\ UNCHANGED <<durable, ephemeral, now, edit, del, calls>>

\* the completion returns: an error dict or an empty content raises
\* OpenRouterAPIException, otherwise the content is the answer
SendCompletion(t) ==
    /\ turn[t].pc = "UPSTREAM_CALLED"
    /\ turn[t].endpoint = "send"
    /\ \/ \E why \in {"http_error", "transport_error", "empty"} :
            turn' = [turn EXCEPT ![t].pc = "FAILED", ![t].outcome = why]
       \/ \E ai_message_content \in Completions :
            turn' = [turn EXCEPT ![t].pc = "ENDED",
                                 ![t].outcome = "end_of_stream",
                                 ![t].full_response = ai_message_content]
    /\ UNCHANGED <<durable, ephemeral, now, edit, del, calls>>

(***************************************************************************)
(* The assistant turn                                                      *)
(***************************************************************************)
\* mutant: the temporary branch also writes the answer to the database
CommitTemporary_AlsoDurable(t) ==
    /\ turn[t].pc = "ENDED"
    /\ turn[t].is_temporary
    /\ temporary_sessions' =
          add_message_to_session(temporary_sessions, turn[t].session_id,
                                 "assistant", turn[t].full_response,
                                 turn[t].model, None)
    /\ messages' = messages
            \cup {MessageRow(next_msg_id, turn[t].session_id, "assistant",
                             turn[t].full_response, turn[t].model, None, now)}
    /\ next_msg_id' = next_msg_id + 1
    /\ turn' = [turn EXCEPT ![t].pc = "COMPLETED"]
    /\ UNCHANGED <<conversations, next_conv_id, next_session_id, now, edit, del, calls>>

\* generate_stream after its loop, temporary branch
CommitTemporary(t) ==
    /\ turn[t].pc = "ENDED"
    /\ turn[t].is_temporary
    /\ temporary_sessions' =
          add_message_to_session(temporary_sessions, turn[t].session_id,
                                 "assistant", turn[t].full_response,
                                 turn[t].model, None)
    /\ turn' = [turn EXCEPT ![t].pc = "COMPLETED"]
    /\ UNCHANGED <<durable, next_session_id, now, edit, del, calls>>

\* mutant: the answer is tagged with the model of the conversation
CommitDurable_ConversationModel(t) ==
    /\ turn[t].pc = "ENDED"
    /\ turn[t].endpoint = "stream"
    /\ ~turn[t].is_temporary
    /\ \E ts \in InsertTimes, tag \in {c.model_name : c \in conversations} \cup {None} :
        /\ (\E c \in conversations : c.id = turn[t].conversation)
              => (\E c \in conversations :
                    c.id = turn[t].conversation /\ c.model_name = tag)
        /\ now' = ts
        /\ messages' = messages
              \cup {MessageRow(next_msg_id, turn[t].conversation, "assistant",
                               turn[t].full_response, tag, None, ts)}
    /\ next_msg_id' = next_msg_id + 1
    /\ turn' = [turn EXCEPT ![t].pc = "COMPLETED"]
    /\ UNCHANGED <<conversations, next_conv_id, ephemeral, edit, del, calls>>

\* mutant: the answer replaces the answers written since the user message
CommitDurable_LastWriterWins(t) ==
    /\ turn[t].pc = "ENDED"
    /\ turn[t].endpoint = "stream"
    /\ ~turn[t].is_temporary
    /\ \E ts \in InsertTimes :
        /\ now' = ts
        /\ messages' =
              {m \in messages : ~(/\ m.conversation_id = turn[t].conversation
                                   /\ m.role = "assistant"
                                   /\ m.id > turn[t].user_message)}
              \cup {MessageRow(next_msg_id, turn[t].conversation, "assistant",
                               turn[t].full_response, turn[t].model, None, ts)}
    /\ next_msg_id' = next_msg_id + 1
    /\ turn' = [turn EXCEPT ![t].pc = "COMPLETED"]
    /\ UNCHANGED <<conversations, next_conv_id, ephemeral, edit, del, calls>>

\* mutant: the insert of the answer is made twice
CommitDurable_Twice(t) ==
    /\ turn[t].pc = "ENDED"
    /\ turn[t].endpoint = "stream"
    /\ ~turn[t].is_temporary
    /\ \E ts \in InsertTimes :
        /\ now' = ts
        /\ messages' = messages
              \cup {MessageRow(next_msg_id + k, turn[t].conversation, "assistant",
                               turn[t].full_response, turn[t].model, None, ts) :
                       k \in {0, 1}}
    /\ next_msg_id' = next_msg_id + 2
    /\ turn' = [turn EXCEPT ![t].pc = "COMPLETED"]
    /\ UNCHANGED <<conversations, next_conv_id, ephemeral, edit, del, calls>>

\* generate_stream after its loop, durable branch
CommitDurable(t) ==
    /\ turn[t].pc = "ENDED"
    /\ turn[t].endpoint = "stream"
    /\ ~turn[t].is_temporary
    /\ \E ts \in InsertTimes :
        /\ now' = ts
        /\ messages' = messages
              \cup {MessageRow(next_msg_id, turn[t].conversation, "assistant",
                               turn[t].full_response, turn[t].model, None, ts)}
    /\ next_msg_id' = next_msg_id + 1
    /\ turn' = [turn EXCEPT ![t].pc = "COMPLETED"]
    /\ UNCHANGED <<conversations, next_conv_id, ephemeral, edit, del, calls>>

\* send_message, step 5: insert of the answer, commit, ChatResponse
CommitSend(t) ==
    /\ turn[t].pc = "ENDED"
    /\ turn[t].endpoint = "send"
    /\ \E ts \in InsertTimes :
        /\ now' = ts
        /\ messages' = messages
              \cup {MessageRow(next_msg_id, turn[t].conversation, "assistant",
                               turn[t].full_response, turn[t].model, None, ts)}
    /\ next_msg_id' = next_msg_id + 1
    /\ turn' = [turn EXCEPT ![t].pc = "COMPLETED"]
    /\ UNCHANGED <<conversations, next_conv_id, ephemeral, edit, del, calls>>

(***************************************************************************)
(* routers/chat.py: edit_message                                           *)
(***************************************************************************)
\* mutant: the role of the message is not looked at
EditFind_NoRoleCheck ==
    /\ edit.pc = "idle"
    /\ del.pc = "idle"
    /\ \E message_id \in 1..next_msg_id, content \in EditContents :
        LET found == {m \in messages : m.id = message_id}
        IN edit' =
            IF found = {}
            THEN [IdleEdit EXCEPT !.pc = "NOT_FOUND", !.message_id = message_id]
            ELSE LET message == CHOOSE m \in found : TRUE
                 IN [IdleEdit EXCEPT !.pc = "FOUND",
                                     !.message_id = message_id,
                                     !.content = content,
                                     !.conversation_id = message.conversation_id,
                                     !.timestamp = message.timestamp]
    /\ UNCHANGED <<durable, ephemeral, now, turn, del, calls>>

\* mutant: a missing message is not reported, the handler goes on
EditFind_NoNotFound ==
    /\ edit.pc = "idle"
    /\ del.pc = "idle"
    /\ \E message_id \in 1..next_msg_id, content \in EditContents :
        LET found == {m \in messages : m.id = message_id}
        IN edit' =
            IF found = {}
            THEN [IdleEdit EXCEPT !.pc = "FOUND", !.message_id = message_id,
                                  !.content = content]
            ELSE LET message == CHOOSE m \in found : TRUE
                 IN IF message.role # "user"
                    THEN [IdleEdit EXCEPT !.pc = "REJECTED",
                                          !.message_id = message_id]
                    ELSE [IdleEdit EXCEPT !.pc = "FOUND",
                                          !.message_id = message_id,
                                          !.content = content,
                                          !.conversation_id = message.conversation_id,
                                          !.timestamp = message.timestamp]
    /\ UNCHANGED <<durable, ephemeral, now, turn, del, calls>>

\* steps 1 and 2: select of the message, 404 when absent, validation error
\* when it is not a user message; message.content is then set in memory.
\* (One edit or one delete request is made in a run.)
EditFind ==
    /\ edit.pc = "idle"
    /\ del.pc = "idle"
    /\ \E message_id \in 1..next_msg_id, content \in EditContents :
        LET found == {m \in messages : m.id = message_id}
        IN edit' =
            IF found = {}
            THEN [IdleEdit EXCEPT !.pc = "NOT_FOUND", !.message_id = message_id]
            ELSE LET message == CHOOSE m \in found : TRUE
                 IN IF message.role # "user"
                    THEN [IdleEdit EXCEPT !.pc = "REJECTED",
                                          !.message_id = message_id]
                    ELSE [IdleEdit EXCEPT !.pc = "FOUND",
                                          !.message_id = message_id,
                                          !.content = content,
                                          !.conversation_id = message.conversation_id,
                                          !.timestamp = message.timestamp]
    /\ UNCHANGED <<durable, ephemeral, now, turn, del, calls>>

\* mutant: the select of the later messages has no conversation filter
subsequent_messages_AnyConversation(rows, conversation_id, timestamp) ==
    {m \in rows : m.timestamp > timestamp}

\* mutant: >= in place of >
subsequent_messages_Inclusive(rows, conversation_id, timestamp) ==
    {m \in rows : m.conversation_id = conversation_id /\ m.timestamp >= timestamp}

\* the rows the second select of edit_message returns
subsequent_messages(rows, conversation_id, timestamp) ==
    {m \in rows : m.conversation_id = conversation_id /\ m.timestamp > timestamp}

\* steps 3 to 5. The select of the later messages first flushes the UPDATE
\* of the content, which takes SQLite's write lock until the commit, so no
\* other write falls between the select and the deletes. An UPDATE that
\* matches no row (the message was deleted since step 1) raises
\* StaleDataError and nothing is committed.
EditApply ==
    /\ edit.pc = "FOUND"
    /\ IF \E m \in messages : m.id = edit.message_id
       THEN LET later == subsequent_messages(messages, edit.conversation_id,
                                             edit.timestamp)
            IN /\ messages' =
                    {IF m.id = edit.message_id
                     THEN [m EXCEPT !.content = edit.content] ELSE m :
                        m \in messages \ later}
               /\ edit' = [IdleEdit EXCEPT !.pc = "DONE",
                                           !.deleted_count = Cardinality(later)]
       ELSE /\ edit' = [IdleEdit EXCEPT !.pc = "STALE"]
            /\ UNCHANGED messages
    /\ UNCHANGED <<conversations, next_conv_id, next_msg_id, ephemeral, now, turn, del, calls>>

(***************************************************************************)
(* routers/conversations.py: delete_conversation                           *)
(***************************************************************************)
\* select of the conversation, 404 when absent; db.delete() then loads
\* conversation.messages for the cascade
DeleteFind ==
    /\ del.pc = "idle"
    /\ edit.pc = "idle"
    /\ \E conversation_id \in 1..next_conv_id :
        del' =
            IF \E c \in conversations : c.id = conversation_id
            THEN [pc |-> "LOADED", conversation_id |-> conversation_id,
                  loaded |-> {m.id : m \in {x \in messages :
                                              x.conversation_id = conversation_id}}]
            ELSE [IdleDelete EXCEPT !.pc = "NOT_FOUND"]
    /\ UNCHANGED <<durable, ephemeral, now, turn, edit, calls>>

\* commit: DELETE of each loaded message, DELETE of the conversation
\* (SQLite does not enforce the foreign key: PRAGMA foreign_keys is off)
DeleteCommit ==
    /\ del.pc = "LOADED"
    /\ messages' = {m \in messages : m.id \notin del.loaded}
    /\ conversations' = {c \in conversations : c.id # del.conversation_id}
    /\ del' = [IdleDelete EXCEPT !.pc = "DONE"]
    /\ UNCHANGED <<next_conv_id, next_msg_id, ephemeral, now, turn, edit, calls>>

Next ==
    \/ \E t \in Turns : RejectInvalid(t)
    \/ \E t \in Turns : SendRejectTemporary(t)
    \/ \E t \in Turns : StreamTemporary(t)
    \/ \E t \in Turns : FindConversation(t)
    \/ \E t \in Turns : CreateConversation(t)
    \/ \E t \in Turns : RecordUser(t)
    \/ \E t \in Turns : AssembleHistory(t)
    \/ \E t \in Turns : UpstreamOpen(t)
    \/ \E t \in Turns : UpstreamStatusError(t)
    \/ \E t \in Turns : UpstreamTransportError(t)
    \/ \E t \in Turns : StreamLine(t)
    \/ \E t \in Turns : StreamEnd(t)
    \/ \E t \in Turns : Disconnect(t)
    \/ \E t \in Turns : SendCompletion(t)
    \/ \E t \in Turns : CommitTemporary(t)
    \/ \E t \in Turns : CommitDurable(t)
    \/ \E t \in Turns : CommitSend(t)
    \/ EditFind
    \/ EditApply
    \/ DeleteFind
    \/ DeleteCommit

Spec == Init /\ [][Next]_vars

\* The steps of a request that asyncio takes without the caller: the event
\* loop resumes every task whose await has completed, the database answers,
\* and the provider call ends, fails or runs into its timeout
\* (client.stream(..., timeout=60.0)); the chunks of one answer are bounded
\* by MaxChunks.  The arrival of a request and the disconnect of its caller
\* are steps of the environment and carry no fairness.
Proceeds(t) ==
    \/ RecordUser(t)
    \/ AssembleHistory(t)
    \/ UpstreamOpen(t)
    \/ UpstreamStatusError(t)
    \/ UpstreamTransportError(t)
    \/ StreamLine(t)
    \/ StreamEnd(t)
    \/ SendCompletion(t)
    \/ CommitTemporary(t)
    \/ CommitDurable(t)
    \/ CommitSend(t)

\* The chat requests alone.  edit_message and delete_conversation neither
\* read nor write `turn`, and no step of a chat request waits for them: the
\* one thing a chat request reads of their effect is the conversation row
\* looked up by FindConversation, and both answers of that lookup occur here
\* as well.
ChatNext ==
    \/ \E t \in Turns : RejectInvalid(t)
    \/ \E t \in Turns : SendRejectTemporary(t)
    \/ \E t \in Turns : StreamTemporary(t)
    \/ \E t \in Turns : FindConversation(t)
    \/ \E t \in Turns : CreateConversation(t)
    \/ \E t \in Turns : Disconnect(t)
    \/ \E t \in Turns : Proceeds(t)

FairSpec == Init /\ [][ChatNext]_vars /\ \A t \in Turns : WF_vars(Proceeds(t))

(***************************************************************************)
(* services/temporary_sessions.py called directly                          *)
(*                                                                         *)
(* The five functions of the module, called in any order by tasks of the   *)
(* event loop. None of them awaits, so each call runs to its end before    *)
(* another task runs: one call is one step. calls records every call with  *)
(* its arguments and what it returned. delete_session and                  *)
(* get_active_sessions_count have no caller in the routers.                *)
(***************************************************************************)
\* session ids a caller passes
StoreIds == {-1, -2}

\* the messages task t appends
StoreMessages(t) ==
    IF t = "t1"
    THEN {[role |-> "user", content |-> "hello", model_name |-> None,
           image_url |-> None],
          [role |-> "user", content |-> "look", model_name |-> None,
           image_url |-> "img"]}
    ELSE {[role |-> "assistant", content |-> "answer", model_name |-> "p/q",
           image_url |-> None]}

NoMessage ==
    [role |-> None, content |-> "", model_name |-> None, image_url |-> None]

Call(op, task, session_id, message, returned) ==
    [op |-> op, task |-> task, session_id |-> session_id,
     message |-> message, returned |-> returned]

\* mutant: _temporary_sessions.clear()
delete_session_All(sessions, session_id) ==
    [x \in {} |-> <<>>]

\* del _temporary_sessions[session_id] when the key is there
delete_session(sessions, session_id) ==
    [x \in DOMAIN sessions \ {session_id} |-> sessions[x]]

\* len(_temporary_sessions)
get_active_sessions_count(sessions) == Cardinality(DOMAIN sessions)

StoreCreate ==
    /\ Len(calls) < MaxCalls
    /\ LET created == create_temporary_session(temporary_sessions, next_session_id)
       IN /\ temporary_sessions' = created.sessions
          /\ next_session_id' = created.next_id
          /\ calls' = Append(calls, Call("create", None, NoId, NoMessage,
                                         created.session_id))
    /\ UNCHANGED <<durable, now, turn, edit, del>>

StoreAppend(t) ==
    /\ Len(calls) < MaxCalls
    /\ \E session_id \in StoreIds, message \in StoreMessages(t) :
        /\ temporary_sessions' =
              add_message_to_session(temporary_sessions, session_id,
                                     message.role, message.content,
                                     message.model_name, message.image_url)
        /\ calls' = Append(calls, Call("append", t, session_id, message, None))
    /\ UNCHANGED <<durable, next_session_id, now, turn, edit, del>>

StoreRead ==
    /\ Len(calls) < MaxCalls
    /\ \E session_id \in StoreIds :
        calls' = Append(calls,
                        Call("read", None, session_id, NoMessage,
                             get_session_messages(temporary_sessions, session_id)))
    /\ UNCHANGED <<durable, ephemeral, now, turn, edit, del>>

StoreDelete ==
    /\ Len(calls) < MaxCalls
    /\ \E session_id \in StoreIds :
        /\ temporary_sessions' = delete_session(temporary_sessions, session_id)
        /\ calls' = Append(calls, Call("delete", None, session_id, NoMessage, None))
    /\ UNCHANGED <<durable, next_session_id, now, turn, edit, del>>

StoreCount ==
    /\ Len(calls) < MaxCalls
    /\ calls' = Append(calls,
                       Call("count", None, NoId, NoMessage,
                            get_active_sessions_count(temporary_sessions)))
    /\ UNCHANGED <<durable, ephemeral, now, turn, edit, del>>

StoreNext ==
    \/ StoreCreate
    \/ \E t \in Turns : StoreAppend(t)
    \/ StoreRead
    \/ StoreDelete
    \/ StoreCount

StoreSpec == Init /\ [][StoreNext]_vars

(***************************************************************************)
(* The chat requests with delete_session                                   *)
(*                                                                         *)
(* delete_session is called by a task of its own (it has no caller in the  *)
(* routers) on a session that is live, at any moment between the steps of  *)
(* the chat requests.                                                      *)
(***************************************************************************)
SessionDelete ==
    /\ \E session_id \in DOMAIN temporary_sessions :
          temporary_sessions' = delete_session(temporary_sessions, session_id)
    /\ UNCHANGED <<durable, next_session_id, now, turn, edit, del, calls>>

SessionNext ==
    \/ ChatNext
    \/ SessionDelete

SessionSpec == Init /\ [][SessionNext]_vars


(***************************************************************************)
(* Vocabulary of the properties                                            *)
(***************************************************************************)
\* a streaming turn whose upstream call failed with a status or transport error
FailedStream(tr) ==
    tr.endpoint = "stream" /\ tr.outcome \in {"http_error", "transport_error"}

\* slot t takes this step
Acts(t) == turn'[t] # turn[t]

\* slot t commits its assistant turn in this step
Commits(t) == turn[t].pc = "ENDED" /\ turn'[t].pc = "COMPLETED"

AssistantRows(rows) == {m \in rows : m.role = "assistant"}

AssistantCount(list) ==
    Cardinality({i \in 1..Len(list) : list[i].role = "assistant"})

\* the store a turn writes to holds its user turn
UserTurnStored(tr, rows, sessions) ==
    IF tr.is_temporary
    THEN \E i \in 1..Len(get_session_messages(sessions, tr.session_id)) :
            LET d == get_session_messages(sessions, tr.session_id)[i]
            IN d.role = "user" /\ d.content = tr.message
    ELSE \E m \in rows : m.id = tr.user_message /\ m.role = "user"

(***************************************************************************)
(* C1. A streaming turn (durable or temporary) whose upstream call failed  *)
(* with a status or transport error appends no assistant turn to either    *)
(* store, and its user turn is still stored afterwards.                    *)
(* Stated on the steps the failed turn takes.                              *)
(***************************************************************************)
C1_FailedStreamCommitsNoAssistant ==
    [][\A t \in Turns :
        (FailedStream(turn[t]) /\ Acts(t)) =>
            /\ AssistantRows(messages') \subseteq AssistantRows(messages)
            /\ \A sid \in DOMAIN temporary_sessions' :
                  AssistantCount(temporary_sessions'[sid])
                      = AssistantCount(get_session_messages(temporary_sessions, sid))
            /\ UserTurnStored(turn[t], messages', temporary_sessions')]_vars


(***************************************************************************)
(* C2. When the upstream call of a streaming turn fails (status 429, 404,  *)
(* 401, 503, another status, or a transport error), the stream forwarded   *)
(* to the caller holds exactly one error fragment, it is the last chunk    *)
(* of the stream, and nothing is forwarded after it.                       *)
(***************************************************************************)
ErrorChunks(list) == {i \in 1..Len(list) : list[i] \in ErrorFragments}

C2_FailedStreamEndsWithOneErrorFragment ==
    [][\A t \in Turns :
        FailedStream(turn'[t]) =>
            /\ turn'[t].pc \in {"ENDED", "COMPLETED"}
            /\ ErrorChunks(turn'[t].forwarded) = {Len(turn'[t].forwarded)}
            /\ turn'[t].outcome = "transport_error"
                  => turn'[t].forwarded[Len(turn'[t].forwarded)] = StreamTransportMessage
            /\ turn'[t].outcome = "http_error"
                  => turn'[t].forwarded \in
                        {<<StreamStatusMessage(c)>> : c \in StatusCodes}
            /\ FailedStream(turn[t]) => turn'[t].forwarded = turn[t].forwarded]_vars

\* a stream that failed after its chunks were forwarded, and one refused with 429
C2_Witness ==
    /\ turn["t1"].outcome = "transport_error"
    /\ Len(turn["t1"].forwarded) = MaxChunks + 1
    /\ turn["t1"].pc = "COMPLETED"
    /\ turn["t2"].outcome = "http_error"
    /\ turn["t2"].forwarded = <<StreamStatusMessage(429)>>

(***************************************************************************)
(* C3. When a streaming turn reaches end-of-stream, exactly one assistant  *)
(* turn is appended; it goes to the store and to the conversation or       *)
(* session that received the user turn of that turn, and it carries the    *)
(* model of the request.                                                   *)
(***************************************************************************)
C3_EndOfStreamAppendsOneAssistant ==
    [][\A t \in Turns :
        (Commits(t) /\ turn[t].endpoint = "stream"
                    /\ turn[t].outcome = "end_of_stream") =>
            IF turn[t].is_temporary
            THEN LET sid == turn[t].session_id
                     before == get_session_messages(temporary_sessions, sid)
                 IN /\ UNCHANGED durable
                    /\ DOMAIN temporary_sessions' = DOMAIN temporary_sessions \cup {sid}
                    /\ \A o \in DOMAIN temporary_sessions \ {sid} :
                          temporary_sessions'[o] = temporary_sessions[o]
                    /\ Len(temporary_sessions'[sid]) = Len(before) + 1
                    /\ SubSeq(temporary_sessions'[sid], 1, Len(before)) = before
                    /\ LET d == temporary_sessions'[sid][Len(before) + 1]
                       IN /\ d.role = "assistant"
                          /\ d.model_name = turn[t].model
                          /\ d.content = turn[t].full_response
            ELSE /\ UNCHANGED ephemeral
                 /\ messages \subseteq messages'
                 /\ Cardinality(messages' \ messages) = 1
                 /\ \A m \in messages' \ messages :
                      /\ m.role = "assistant"
                      /\ m.model_name = turn[t].model
                      /\ m.content = turn[t].full_response
                      /\ m.conversation_id = turn[t].session_id
                      /\ \A u \in messages :
                            u.id = turn[t].user_message
                                => u.conversation_id = m.conversation_id]_vars

\* a durable streaming turn completed on a conversation that another
\* request made with another model
C3_Witness ==
    /\ turn["t1"].pc = "COMPLETED" /\ ~turn["t1"].is_temporary
    /\ turn["t2"].pc = "COMPLETED" /\ turn["t2"].outcome = "end_of_stream"
    /\ turn["t2"].endpoint = "stream" /\ ~turn["t2"].is_temporary
    /\ turn["t2"].conversation = turn["t1"].conversation
    /\ \E c \in conversations :
          c.id = turn["t2"].conversation /\ c.model_name # turn["t2"].model
    /\ \E m \in messages :
          /\ m.role = "assistant" /\ m.model_name = turn["t2"].model
          /\ m.conversation_id = turn["t2"].conversation

(***************************************************************************)
(* C4. For every streaming turn the content of the committed assistant     *)
(* turn is the concatenation, in arrival order, of exactly the chunks that *)
(* were forwarded to the caller; each chunk is forwarded before the next   *)
(* is read, so the accumulated text never runs ahead of what was           *)
(* forwarded, and chunks are forwarded one at a time.                      *)
(***************************************************************************)
CommittedContent(t) ==
    IF turn[t].is_temporary
    THEN LET list == temporary_sessions'[turn[t].session_id]
         IN {list[Len(list)].content}
    ELSE {m.content : m \in messages' \ messages}

C4_CommittedTextIsForwardedText ==
    [][\A t \in Turns :
        turn'[t].endpoint = "stream" =>
            /\ turn'[t].full_response = Concat(turn'[t].forwarded)
            /\ Len(turn'[t].forwarded) <= Len(turn[t].forwarded) + 1
            /\ SubSeq(turn'[t].forwarded, 1, Len(turn[t].forwarded)) = turn[t].forwarded
            /\ Commits(t) => CommittedContent(t) = {Concat(turn[t].forwarded)}]_vars

\* both stores hold an answer made of two chunks
C4_Witness ==
    /\ \A t \in Turns :
          /\ turn[t].pc = "COMPLETED"
          /\ turn[t].forwarded = <<Chunk(1), Chunk(2)>>
    /\ turn["t1"].is_temporary
    /\ \E m \in messages : m.content = Chunk(1) \o Chunk(2)

(***************************************************************************)
(* C5. A streaming turn without conversation id and without the temporary  *)
(* flag, once completed with no other operation on its conversation,       *)
(* leaves a new conversation with exactly two messages: the user turn and  *)
(* then the assistant turn holding the streamed text, both under the id    *)
(* of the X-Conversation-Id header.                                        *)
(***************************************************************************)
NoOtherOperationOn(t) ==
    /\ edit.pc \in {"idle", "NOT_FOUND", "REJECTED"}
    /\ del.pc \in {"idle", "NOT_FOUND"}
    /\ \A o \in Turns \ {t} : turn[o].conversation # turn[t].conversation

C5_NewConversationHoldsUserThenAssistant ==
    \A t \in Turns :
        (/\ turn[t].endpoint = "stream" /\ ~turn[t].is_temporary
         /\ turn[t].conversation_id = NoId
         /\ turn[t].pc = "COMPLETED"
         /\ NoOtherOperationOn(t)) =>
            LET list == MessagesOf(messages, turn[t].session_id)
            IN /\ turn[t].session_id > 0
               /\ \E c \in conversations : c.id = turn[t].session_id
               /\ Len(list) = 2
               /\ list[1].role = "user"
               /\ list[1].content = turn[t].message
               /\ list[1].image_url = turn[t].image_url
               /\ list[2].role = "assistant"
               /\ list[2].content = Concat(turn[t].forwarded)
               /\ list[1].id < list[2].id
               /\ list[1].timestamp <= list[2].timestamp

\* the second request made a conversation of its own and streamed "ab"
C5_Witness ==
    /\ turn["t2"].endpoint = "stream" /\ ~turn["t2"].is_temporary
    /\ turn["t2"].conversation_id = NoId
    /\ turn["t2"].pc = "COMPLETED"
    /\ turn["t2"].session_id = 2
    /\ Concat(turn["t2"].forwarded) = Chunk(1) \o Chunk(2)
    /\ NoOtherOperationOn("t2")
    /\ turn["t1"].pc = "COMPLETED" /\ turn["t1"].conversation = 1

(***************************************************************************)
(* C6. A streaming turn with the temporary flag and the negative id that   *)
(* an earlier temporary turn returned is accepted and appended to that     *)
(* session.                                                                *)
(***************************************************************************)
C6_NegativeIdContinuesSession ==
    \A t \in Turns :
        (/\ turn[t].endpoint = "stream" /\ turn[t].is_temporary
         /\ turn[t].conversation_id < 0
         /\ \E o \in Turns \ {t} :
               /\ turn[o].is_temporary
               /\ turn[o].pc = "COMPLETED"
               /\ turn[o].session_id = turn[t].conversation_id) =>
            /\ turn[t].pc # "REJECTED"
            /\ turn[t].session_id = turn[t].conversation_id

(***************************************************************************)
(* C7. A turn writes to one store only: a step of a turn with the          *)
(* temporary flag changes no conversation and no message of the database,  *)
(* and a step of a turn without it changes no temporary session.           *)
(***************************************************************************)
C7_OneStorePerTurn ==
    [][\A t \in Turns :
        Acts(t) =>
            /\ turn'[t].is_temporary => UNCHANGED durable
            /\ ~turn'[t].is_temporary => UNCHANGED ephemeral]_vars

\* a temporary turn and a durable turn both completed
C7_Witness ==
    /\ turn["t1"].pc = "COMPLETED" /\ ~turn["t1"].is_temporary
    /\ turn["t2"].pc = "COMPLETED" /\ turn["t2"].is_temporary
    /\ Len(get_session_messages(temporary_sessions, turn["t2"].session_id)) = 2
    /\ Cardinality(messages) = 2

(***************************************************************************)
(* C8. In a streaming and in a non-streaming turn the user turn is         *)
(* appended to its store before the provider is called, and when the       *)
(* request carries no conversation id the new conversation or the new      *)
(* temporary session is created before the user turn is appended.          *)
(***************************************************************************)
CallsUpstream(t) ==
    turn[t].pc # "UPSTREAM_CALLED" /\ turn'[t].pc = "UPSTREAM_CALLED"

RecordsUser(t) ==
    turn[t].pc = "START" /\ turn'[t].pc = "USER_RECORDED"

C8_UserTurnBeforeUpstreamCall ==
    [][\A t \in Turns :
        /\ CallsUpstream(t) =>
              IF turn'[t].is_temporary
              THEN LET sid == turn'[t].session_id
                       list == get_session_messages(temporary_sessions', sid)
                   IN /\ sid \in DOMAIN temporary_sessions'
                      /\ Len(list) >= 1
                      /\ list[Len(list)].role = "user"
                      /\ list[Len(list)].content = turn'[t].message
                      /\ turn'[t].conversation_id = NoId =>
                            /\ sid \notin DOMAIN temporary_sessions
                            /\ sid = next_session_id
                            /\ Len(list) = 1
              ELSE /\ turn[t].pc = "USER_RECORDED"
                   /\ turn[t].user_message \in 1..(next_msg_id - 1)
                   /\ UNCHANGED messages
        /\ RecordsUser(t) =>
              /\ turn[t].chat_history = <<>>
              /\ turn[t].conversation \in 1..(next_conv_id - 1)
              /\ UNCHANGED conversations
              /\ messages' \ messages =
                    {MessageRow(turn'[t].user_message, turn[t].conversation,
                                "user", turn[t].message, None,
                                turn[t].image_url, now')}
              /\ turn'[t].user_message = next_msg_id]_vars

\* a non-streaming turn on a new conversation and a streaming turn on a
\* new temporary session, both waiting for the provider
C8_Witness ==
    /\ turn["t1"].pc = "UPSTREAM_CALLED" /\ turn["t1"].endpoint = "send"
    /\ turn["t1"].conversation_id = NoId
    /\ \E m \in messages : m.id = turn["t1"].user_message /\ m.role = "user"
    /\ turn["t2"].pc = "UPSTREAM_CALLED" /\ turn["t2"].is_temporary
    /\ turn["t2"].session_id = -1

(***************************************************************************)
(* C9. The message list sent to the provider for a turn holds every turn   *)
(* stored for its conversation or session when it is assembled, oldest     *)
(* first, and the user turn that this turn has just recorded is among      *)
(* them.                                                                   *)
(***************************************************************************)
C9_HistoryHoldsRecordedUserTurn ==
    [][\A t \in Turns :
        CallsUpstream(t) =>
            IF turn'[t].is_temporary
            THEN LET list == get_session_messages(temporary_sessions',
                                                  turn'[t].session_id)
                 IN /\ turn'[t].chat_history = chat_history_temporary(list)
                    /\ Len(list) >= 1
                    /\ list[Len(list)].role = "user"
                    /\ list[Len(list)].content = turn'[t].message
            ELSE LET list == MessagesOf(messages', turn[t].conversation)
                 IN /\ Len(turn'[t].chat_history) = Len(list)
                    /\ \A i \in 1..Len(list) :
                          turn'[t].chat_history[i] =
                             ProviderMessage(list[i].role, list[i].content,
                                             list[i].image_url)
                    /\ \E i \in 1..Len(list) :
                          list[i].id = turn[t].user_message]_vars

(***************************************************************************)
(* C10. A successful edit of user message M sets M's content to the new    *)
(* content, deletes the messages of M's conversation whose timestamp is    *)
(* strictly greater than M's and no other message, and reports as          *)
(* deleted_count the number of messages removed.                           *)
(***************************************************************************)
C10_EditOverwritesAndTruncates ==
    [][(edit.pc = "FOUND" /\ edit'.pc = "DONE") =>
        \E M \in messages :
            /\ M.id = edit.message_id
            /\ M.role = "user"
            /\ [M EXCEPT !.content = edit.content] \in messages'
            /\ \A m \in messages \ {M} :
                  m \in messages' <=>
                     ~(m.conversation_id = M.conversation_id
                         /\ m.timestamp > M.timestamp)
            /\ {m.id : m \in messages'} \subseteq {m.id : m \in messages}
            /\ Cardinality(messages') = Cardinality({m.id : m \in messages'})
            /\ edit'.deleted_count = Cardinality(messages) - Cardinality(messages')]_vars

\* an edit that removed two later messages and kept the answer that
\* carries the timestamp of the edited message
C10_Witness ==
    /\ edit.pc = "DONE"
    /\ edit.deleted_count = 2
    /\ \E m \in messages :
          /\ m.content \in EditContents
          /\ \E o \in messages :
                /\ o.conversation_id = m.conversation_id
                /\ o.timestamp = m.timestamp
                /\ o.id > m.id

(***************************************************************************)
(* C11. After a successful edit of message M, the conversation read back   *)
(* (messages ordered by timestamp) ends with a message whose timestamp is  *)
(* at most M's, and its length is the position of M in the ordered         *)
(* history before the edit (index of M counted from 0, plus one), also     *)
(* when other messages carry M's timestamp.                                *)
(***************************************************************************)
IndexOf(list, id) == CHOOSE i \in 1..Len(list) : list[i].id = id

C11_EditedHistoryEndsAtM ==
    [][(edit.pc = "FOUND" /\ edit'.pc = "DONE") =>
        LET before == MessagesOf(messages, edit.conversation_id)
            after == MessagesOf(messages', edit.conversation_id)
        IN /\ Len(after) = IndexOf(before, edit.message_id)
           /\ after[Len(after)].timestamp <= edit.timestamp]_vars

(***************************************************************************)
(* C12. No assistant turn is stored whose history was assembled from the   *)
(* content a message had before it was edited, whatever the interleaving   *)
(* of the edit with the turn. Stated at the step that stores the answer:   *)
(* every message of the conversation that is as old as the user turn of    *)
(* the turn, and is still stored, was in the assembled history (rows are   *)
(* never re-inserted), so it must be there with the content it has now.    *)
(***************************************************************************)
C12_AnswerFromCurrentContent ==
    [][\A t \in Turns :
        (Commits(t) /\ ~turn[t].is_temporary) =>
            \A m \in messages' :
                (m.conversation_id = turn[t].conversation
                    /\ m.id <= turn[t].user_message) =>
                    \E i \in 1..Len(turn[t].chat_history) :
                        turn[t].chat_history[i] =
                            ProviderMessage(m.role, m.content, m.image_url)]_vars

(***************************************************************************)
(* C13. An edit request on a message whose role is not user is refused     *)
(* with a validation error and the database is left as it was: the         *)
(* request reads the message, changes nothing and does nothing more.       *)
(***************************************************************************)
EditArrives == edit.pc = "idle" /\ edit'.pc # "idle"

C13_EditOfAssistantMessageRefused ==
    [][/\ EditArrives =>
            \A m \in messages :
                (m.id = edit'.message_id /\ m.role # "user") =>
                    /\ edit'.pc = "REJECTED"
                    /\ UNCHANGED <<durable, ephemeral>>
       /\ edit.pc = "REJECTED" => edit' = edit]_vars

\* the edit of a stored answer was refused and the answer is as it was
C13_Witness ==
    /\ edit.pc = "REJECTED"
    /\ \E m \in messages :
          /\ m.id = edit.message_id
          /\ m.role = "assistant"
          /\ m.content \in Completions
    /\ Cardinality(messages) = 2

(***************************************************************************)
(* C14. An edit request naming a message id that is not in the database    *)
(* fails with MessageNotFoundException and changes nothing.                *)
(***************************************************************************)
C14_EditOfMissingMessageNotFound ==
    [][/\ EditArrives =>
            ((\A m \in messages : m.id # edit'.message_id) =>
                /\ edit'.pc = "NOT_FOUND"
                /\ UNCHANGED <<durable, ephemeral>>)
       /\ edit.pc = "NOT_FOUND" => edit' = edit]_vars

\* the database holds messages, none with the id of the request
C14_Witness ==
    /\ edit.pc = "NOT_FOUND"
    /\ Cardinality(messages) >= 2
    /\ \A m \in messages : m.id # edit.message_id

(***************************************************************************)
(* Vocabulary of the properties of the session store                       *)
(***************************************************************************)
LastCall == calls'[Len(calls')]

\* the step is a call of op
Calls(op) == Len(calls') = Len(calls) + 1 /\ LastCall.op = op

IsCreate(c) == c.op = "create"

StoredAs(message) ==
    SessionMessage(message.role, message.content, message.model_name,
                   message.image_url)

\* the messages appended to session id, in the order of the calls, since
\* the session was last created or deleted
RECURSIVE Appended(_, _)
Appended(h, id) ==
    IF h = <<>> THEN <<>>
    ELSE LET c == h[Len(h)]
             rest == Appended(SubSeq(h, 1, Len(h) - 1), id)
         IN CASE c.op = "append" /\ c.session_id = id ->
                    Append(rest, StoredAs(c.message))
              [] c.op = "delete" /\ c.session_id = id -> <<>>
              [] c.op = "create" /\ c.returned = id -> <<>>
              [] OTHER -> rest

(***************************************************************************)
(* C15. For every k >= 1 the k-th call of create_temporary_session         *)
(* returns -k, whatever appends, reads and deletes are made in between:    *)
(* the ids returned are strictly decreasing and none is returned twice.    *)
(***************************************************************************)
C15_KthCreateReturnsMinusK ==
    LET created == SelectSeq(calls, IsCreate)
    IN \A k \in 1..Len(created) : created[k].returned = 0 - k

\* two sessions created, the first deleted before the second was created
C15_Witness ==
    /\ Len(calls) = 4
    /\ calls[1].op = "create"
    /\ calls[2].op = "append" /\ calls[2].session_id = calls[1].returned
    /\ calls[3].op = "delete" /\ calls[3].session_id = calls[1].returned
    /\ calls[4].op = "create" /\ calls[4].returned = -2

(***************************************************************************)
(* C16. Whatever the sequence of appends made to one session, by one task  *)
(* or by several tasks in turn, reading the session returns exactly the    *)
(* appended messages in the order of the appends: none is lost, none is    *)
(* stored partially, and there are as many messages as appends.            *)
(***************************************************************************)
C16_ReadReturnsAppendsInOrder ==
    /\ \A id \in StoreIds \cup DOMAIN temporary_sessions :
          get_session_messages(temporary_sessions, id) = Appended(calls, id)
    /\ \A i \in 1..Len(calls) :
          calls[i].op = "read" =>
              calls[i].returned =
                  Appended(SubSeq(calls, 1, i - 1), calls[i].session_id)

\* three appends to one session by two tasks, then the read
C16_Witness ==
    /\ Len(calls) = 4
    /\ \A i \in 1..3 : calls[i].op = "append" /\ calls[i].session_id = -1
    /\ calls[1].task = "t1" /\ calls[2].task = "t2" /\ calls[3].task = "t1"
    /\ calls[4].op = "read" /\ calls[4].session_id = -1
    /\ calls[4].returned = <<StoredAs(calls[1].message),
                             StoredAs(calls[2].message),
                             StoredAs(calls[3].message)>>

(***************************************************************************)
(* C17. get_session_messages on an id that has no session, because none    *)
(* was ever created or because it was deleted, returns the empty list, no  *)
(* error, and creates nothing.                                             *)
(***************************************************************************)
C17_ReadOfUnknownIdIsEmpty ==
    [][(Calls("read") /\ LastCall.session_id \notin DOMAIN temporary_sessions) =>
          /\ LastCall.returned = <<>>
          /\ UNCHANGED ephemeral]_vars

\* a session that held a message is deleted and read, while another
\* session holds a message
C17_Witness ==
    /\ Len(calls) = 4
    /\ calls[1].op = "append" /\ calls[1].session_id = -1
    /\ calls[2].op = "append" /\ calls[2].session_id = -2
    /\ calls[3].op = "delete" /\ calls[3].session_id = -1
    /\ calls[4].op = "read" /\ calls[4].session_id = -1
    /\ calls[4].returned = <<>>

(***************************************************************************)
(* C18. add_message_to_session on an id without a live session creates     *)
(* the session holding exactly that message; on a live session it extends  *)
(* the list by exactly that message, at the end. No other session changes. *)
(***************************************************************************)
C18_AppendCreatesOrExtends ==
    [][Calls("append") =>
          LET id == LastCall.session_id
          IN /\ DOMAIN temporary_sessions' = DOMAIN temporary_sessions \cup {id}
             /\ \A o \in DOMAIN temporary_sessions \ {id} :
                   temporary_sessions'[o] = temporary_sessions[o]
             /\ temporary_sessions'[id] =
                   IF id \in DOMAIN temporary_sessions
                   THEN Append(temporary_sessions[id], StoredAs(LastCall.message))
                   ELSE <<StoredAs(LastCall.message)>>
             /\ UNCHANGED next_session_id]_vars

\* a session made by an append and extended by a second one, with an image
C18_Witness ==
    /\ calls # <<>>
    /\ calls[1].op = "append"
    /\ \E id \in DOMAIN temporary_sessions :
          /\ Len(temporary_sessions[id]) = 2
          /\ temporary_sessions[id][1].role = "assistant"
          /\ temporary_sessions[id][2].image_url = "img"

(***************************************************************************)
(* C19. get_active_sessions_count returns the number of live sessions; a   *)
(* create and an append on an id without a session raise it by one, a      *)
(* delete of a live id lowers it by one, and a delete of an unknown id, a  *)
(* read, and an append on a live id leave it as it was; after              *)
(* delete_session(id), get_session_messages(id) returns the empty list.    *)
(***************************************************************************)
C19_CountFollowsLiveSessions ==
    [][LET live == DOMAIN temporary_sessions
           count == get_active_sessions_count(temporary_sessions)
           count_after == get_active_sessions_count(temporary_sessions')
           id == LastCall.session_id
       IN /\ count_after = Cardinality(DOMAIN temporary_sessions')
          /\ Calls("count") => LastCall.returned = Cardinality(live)
          /\ Calls("create") => count_after = count + 1
          /\ Calls("append") =>
                count_after = IF id \in live THEN count ELSE count + 1
          /\ Calls("delete") =>
                /\ count_after = IF id \in live THEN count - 1 ELSE count
                /\ get_session_messages(temporary_sessions', id) = <<>>
          /\ (Calls("read") \/ Calls("count")) => count_after = count]_vars

(***************************************************************************)
(* C20. POST /api/chat/send refuses every request with is_temporary set    *)
(* with a validation error, before any conversation, message or temporary  *)
(* session is created or changed, and does nothing afterwards.             *)
(***************************************************************************)
TemporarySend(tr) == tr.endpoint = "send" /\ tr.is_temporary

SendFailures == {"http_error", "transport_error", "empty"}

C21_SendFailureCommitsNothing ==
    [][\A t \in Turns :
        /\ (turn[t].endpoint = "send" /\ turn[t].pc = "UPSTREAM_CALLED" /\ Acts(t)) =>
              \/ /\ turn'[t].pc = "FAILED"
                 /\ turn'[t].outcome \in SendFailures
                 /\ UNCHANGED <<durable, ephemeral>>
              \/ /\ turn'[t].pc = "ENDED"
                 /\ turn'[t].outcome = "end_of_stream"
                 /\ turn'[t].full_response # ""
        /\ (turn'[t].endpoint = "send" /\ turn'[t].outcome \in SendFailures) =>
              turn'[t].pc = "FAILED"
        /\ turn[t].pc = "FAILED" => turn'[t] = turn[t]]_vars

\* two failed requests on one conversation, which holds their two user
\* messages and no answer
C21_Witness ==
    /\ turn["t1"].pc = "FAILED" /\ turn["t1"].outcome = "empty"
    /\ turn["t2"].pc = "FAILED" /\ turn["t2"].outcome = "http_error"
    /\ turn["t2"].conversation = turn["t1"].conversation
    /\ {m.id : m \in messages} = {turn["t1"].user_message, turn["t2"].user_message}
    /\ AssistantRows(messages) = {}

(***************************************************************************)
(* C22. Every stored message, in the database and in the temporary         *)
(* sessions, user or assistant, has a non-empty content, also the answer   *)
(* committed after a stream that ended without a chunk.                    *)
(***************************************************************************)
C22_StoredContentNonEmpty ==
    /\ \A m \in messages : m.content # ""
    /\ \A sid \in DOMAIN temporary_sessions :
          \A i \in 1..Len(temporary_sessions[sid]) :
              temporary_sessions[sid][i].content # ""

(***************************************************************************)
(* C23. In both stores a stored message carries a model name if and only   *)
(* if its role is assistant: user messages are written without a model,    *)
(* answers with the model of the request that produced them.               *)
(***************************************************************************)
ModelIffAssistant(x) == (x.model_name # None) <=> (x.role = "assistant")

C23_ModelIffAssistant ==
    [][/\ \A m \in messages' : ModelIffAssistant(m)
       /\ \A sid \in DOMAIN temporary_sessions' :
             \A i \in 1..Len(temporary_sessions'[sid]) :
                 ModelIffAssistant(temporary_sessions'[sid][i])
       /\ \A t \in Turns :
             /\ RecordsUser(t) =>
                   \A m \in messages' \ messages :
                       m.role = "user" /\ m.model_name = None
             /\ Commits(t) =>
                   IF turn[t].is_temporary
                   THEN LET list == temporary_sessions'[turn[t].session_id]
                        IN list[Len(list)].model_name = turn[t].model
                   ELSE \A m \in messages' \ messages :
                            m.model_name = turn[t].model]_vars

\* a question and its answer in the database and in a temporary session
C23_Witness ==
    /\ \E u, a \in messages :
          /\ u.role = "user" /\ a.role = "assistant"
          /\ a.conversation_id = u.conversation_id
          /\ a.model_name = "x/y"
    /\ \E sid \in DOMAIN temporary_sessions :
          /\ Len(temporary_sessions[sid]) = 2
          /\ temporary_sessions[sid][1].model_name = None
          /\ temporary_sessions[sid][2].model_name = "p/q"

(***************************************************************************)
(* C24. The id in the X-Conversation-Id header of a streaming response is  *)
(* the id of the conversation or session that received the user turn of    *)
(* the request; it is negative exactly when the turn is processed in       *)
(* temporary mode and positive exactly when it is durable.                 *)
(***************************************************************************)
C24_HeaderIdNamesTheStore ==
    [][\A t \in Turns :
        /\ (CallsUpstream(t) /\ turn'[t].endpoint = "stream") =>
              LET id == turn'[t].session_id
              IN /\ (id < 0) <=> turn'[t].is_temporary
                 /\ (id > 0) <=> ~turn'[t].is_temporary
                 /\ IF turn'[t].is_temporary
                    THEN /\ id \in DOMAIN temporary_sessions'
                         /\ \A o \in DOMAIN temporary_sessions \ {id} :
                               temporary_sessions'[o] = temporary_sessions[o]
                         /\ LET list == temporary_sessions'[id]
                            IN /\ Len(list) =
                                    Len(get_session_messages(temporary_sessions, id)) + 1
                               /\ list[Len(list)].role = "user"
                               /\ list[Len(list)].content = turn'[t].message
                    ELSE /\ id = turn[t].conversation
                         /\ \A m \in messages :
                               m.id = turn[t].user_message => m.conversation_id = id
        /\ (RecordsUser(t) /\ turn[t].endpoint = "stream") =>
              \A m \in messages' \ messages :
                  m.conversation_id = turn'[t].session_id
        /\ (turn[t].endpoint = "stream" /\ turn[t].session_id # NoId) =>
              turn'[t].session_id = turn[t].session_id]_vars

\* a durable response with header 1 and a temporary response, to a request
\* that carried the id 1, with header -1
C24_Witness ==
    /\ turn["t1"].endpoint = "stream" /\ ~turn["t1"].is_temporary
    /\ turn["t1"].pc = "STREAMING" /\ turn["t1"].session_id = 1
    /\ turn["t2"].endpoint = "stream" /\ turn["t2"].is_temporary
    /\ turn["t2"].conversation_id = 1
    /\ turn["t2"].pc = "STREAMING" /\ turn["t2"].session_id = -1

(***************************************************************************)
(* C25. When the caller disconnects after the user turn was recorded and   *)
(* before the end of the stream, the user turn stays in its store and no   *)
(* assistant turn, partial or complete, is committed for the request.      *)
(***************************************************************************)
C25_DisconnectCommitsNothing ==
    [][\A t \in Turns :
        /\ (turn[t].pc # "CANCELLED" /\ turn'[t].pc = "CANCELLED") =>
              /\ turn[t].pc \in {"UPSTREAM_CALLED", "STREAMING"}
              /\ UNCHANGED <<durable, ephemeral>>
        /\ turn[t].pc = "CANCELLED" => turn'[t] = turn[t]
        /\ (turn'[t].pc = "CANCELLED" /\ turn'[t].is_temporary) =>
              LET list == get_session_messages(temporary_sessions',
                                               turn'[t].session_id)
              IN /\ Len(list) = 1
                 /\ list[1].role = "user"
                 /\ list[1].content = turn'[t].message]_vars

\* a durable stream cancelled after its first chunk and a temporary stream
\* cancelled before its first line: the stores hold the two user turns only
C25_Witness ==
    /\ turn["t1"].pc = "CANCELLED" /\ ~turn["t1"].is_temporary
    /\ Len(turn["t1"].forwarded) = 1
    /\ turn["t2"].pc = "CANCELLED" /\ turn["t2"].is_temporary
    /\ turn["t2"].forwarded = <<>>
    /\ {m.id : m \in messages} = {turn["t1"].user_message}
    /\ AssistantRows(messages) = {}

(***************************************************************************)
(* C26. Every message of the database names a conversation that exists,    *)
(* also when a conversation is deleted while a turn is in flight on it,    *)
(* and the conversation id of a message never changes.                     *)
(***************************************************************************)
C26_MessagesBelongToConversations ==
    [][/\ \A m \in messages' : \E c \in conversations' : c.id = m.conversation_id
       /\ \A m \in messages : \A n \in messages' :
             n.id = m.id => n.conversation_id = m.conversation_id]_vars

(***************************************************************************)
(* C27. delete_conversation removes the conversation and every message of  *)
(* that conversation and leaves the other conversations and their messages *)
(* as they were; for an id that names no conversation it fails with        *)
(* ConversationNotFoundException and changes nothing.                      *)
(***************************************************************************)
C27_DeleteRemovesConversationAndMessages ==
    [][/\ (del.pc = "LOADED" /\ del'.pc = "DONE") =>
             /\ conversations' =
                   {c \in conversations : c.id # del.conversation_id}
             /\ messages' =
                   {m \in messages : m.conversation_id # del.conversation_id}
             /\ UNCHANGED ephemeral
       /\ (del.pc = "idle" /\ del'.pc # "idle") => UNCHANGED <<durable, ephemeral>>
       /\ del.pc = "NOT_FOUND" => del' = del]_vars

(***************************************************************************)
(* C28. After a streaming turn failed, a retry of the same message on the  *)
(* same conversation does not duplicate history: once the retry is         *)
(* completed the conversation holds that user message exactly once, and    *)
(* ends with the assistant turn the retry obtained.                        *)
(***************************************************************************)
RetryOf(r, t) ==
    /\ r # t
    /\ FailedStream(turn[t]) /\ ~turn[t].is_temporary
    /\ turn[t].pc = "COMPLETED"
    /\ turn[r].endpoint = "stream" /\ ~turn[r].is_temporary
    /\ turn[r].conversation_id = turn[t].conversation
    /\ turn[r].conversation = turn[t].conversation
    /\ turn[r].message = turn[t].message
    /\ turn[r].image_url = turn[t].image_url
    /\ turn[t].user_message < turn[r].user_message
    \* nothing but the answer of the retry was written after its user turn
    /\ Cardinality({m \in messages :
                       /\ m.conversation_id = turn[r].conversation
                       /\ m.id > turn[r].user_message}) <= 1

C28_RetryDoesNotDuplicate ==
    \A t, r \in Turns :
        (/\ RetryOf(r, t)
         /\ turn[r].pc = "COMPLETED" /\ turn[r].outcome = "end_of_stream"
         /\ edit.pc = "idle" /\ del.pc = "idle") =>
            LET list == MessagesOf(messages, turn[r].conversation)
            IN /\ Cardinality({i \in 1..Len(list) :
                                  /\ list[i].role = "user"
                                  /\ list[i].content = turn[r].message}) = 1
               /\ list[Len(list)].role = "assistant"
               /\ list[Len(list)].content = turn[r].full_response

(***************************************************************************)
(* C30. Every key of _temporary_sessions is a negative integer and every   *)
(* conversation id is a positive integer: no id names a temporary session  *)
(* and a conversation.                                                     *)
(***************************************************************************)
C30_IdSpacesDisjoint ==
    /\ \A k \in DOMAIN temporary_sessions : k < 0
    /\ \A c \in conversations : c.id > 0
    /\ next_session_id < 0
    /\ next_conv_id > 0
    /\ DOMAIN temporary_sessions \cap {c.id : c \in conversations} = {}

\* a temporary request that carried the id of conversation 1 wrote to
\* session -1
C30_Witness ==
    /\ \E c \in conversations : c.id = 1
    /\ turn["t2"].is_temporary /\ turn["t2"].conversation_id = 1
    /\ turn["t2"].pc = "COMPLETED"
    /\ DOMAIN temporary_sessions = {-1}
    /\ Len(temporary_sessions[-1]) = 2

(***************************************************************************)
(* C29. A streaming turn passes START, USER_RECORDED, UPSTREAM_CALLED and  *)
(* STREAMING in this order and, the provider call ending, failing or       *)
(* timing out, ends in exactly one of COMPLETED and FAILED; FAILED is      *)
(* entered from UPSTREAM_CALLED or STREAMING only, and a turn that has     *)
(* ended takes no further step.                                            *)
(*                                                                         *)
(* State(tr) reads the state of the turn off the handler: the generator    *)
(* that has seen the end of the stream is in STREAMING until its commit    *)
(* returns; the generator that has yielded an error text is in FAILED.     *)
(* The temporary branch has no await between the arrival and the provider  *)
(* call: it passes START and USER_RECORDED within one step.  A turn whose  *)
(* caller disconnects is cancelled and reaches neither end.                *)
(***************************************************************************)
State(tr) ==
    CASE tr.pc = "ENDED" ->
            IF FailedStream(tr) THEN "FAILED" ELSE "STREAMING"
      [] tr.pc = "COMPLETED" ->
            IF FailedStream(tr) THEN "FAILED" ELSE "COMPLETED"
      [] OTHER -> tr.pc

TurnOrder ==
    {<<"START", "USER_RECORDED">>, <<"USER_RECORDED", "UPSTREAM_CALLED">>,
     <<"UPSTREAM_CALLED", "STREAMING">>, <<"STREAMING", "COMPLETED">>,
     <<"UPSTREAM_CALLED", "FAILED">>, <<"STREAMING", "FAILED">>}

Terminal == {"COMPLETED", "FAILED"}

InTurn(t) ==
    /\ turn[t].endpoint = "stream"
    /\ turn[t].pc \in {"START", "USER_RECORDED", "UPSTREAM_CALLED",
                       "STREAMING", "ENDED"}

Before(o, m) ==
    \/ o.timestamp < m.timestamp
    \/ o.timestamp = m.timestamp /\ o.id < m.id

Rank(m, rows) == 1 + Cardinality({o \in rows : Before(o, m)})

IsPrefix(a, b) == Len(a) <= Len(b) /\ \A i \in 1..Len(a) : a[i] = b[i]

RoundTrip(stored, sent) ==
    IF stored.image_url = None
    THEN sent = [role |-> stored.role, content |-> stored.content]
    ELSE /\ DOMAIN sent = {"role", "content_parts"}
         /\ sent.role = stored.role
         /\ Len(sent.content_parts) = 2
         /\ sent.content_parts[1] = [type |-> "text", text |-> stored.content]
         /\ sent.content_parts[2] =
               [type |-> "image_url", image_url |-> [url |-> stored.image_url]]

C32_AssemblerRoundTrip ==
    [][\A t \in Turns :
          CallsUpstream(t) =>
             LET stored == IF turn'[t].is_temporary
                           THEN temporary_sessions'[turn'[t].session_id]
                           ELSE MessagesOf(messages, turn[t].conversation)
                 sent == turn'[t].chat_history
             IN /\ Len(sent) = Len(stored)
                /\ \A i \in 1..Len(stored) : RoundTrip(stored[i], sent[i])]_vars

\* an image turn assembled from a temporary session and a text turn
\* assembled from the rows of a conversation
C32_Witness ==
    /\ turn["t1"].is_temporary /\ turn["t1"].pc = "UPSTREAM_CALLED"
    /\ turn["t1"].image_url = "img"
    /\ DOMAIN turn["t1"].chat_history[1] = {"role", "content_parts"}
    /\ ~turn["t2"].is_temporary /\ turn["t2"].pc = "UPSTREAM_CALLED"
    /\ turn["t2"].chat_history = <<[role |-> "user", content |-> "hello"]>>

(***************************************************************************)
(* C33. Assistant turns are written by the commit at the end of a turn     *)
(* only, and one per turn: a step that adds or changes an assistant turn   *)
(* is the commit of one chat request and adds exactly one; a conversation  *)
(* or session never holds more assistant turns than chat requests were     *)
(* processed on it; edit_message neither creates nor changes an assistant  *)
(* turn.                                                                   *)
(***************************************************************************)
AssistantsOf(rows, cid) ==
    {m \in AssistantRows(rows) : m.conversation_id = cid}

TurnsOn(trs, id) ==
    {t \in Turns : trs[t].conversation = id \/ trs[t].session_id = id}

C33_OneAssistantPerTurn ==
    [][/\ AssistantRows(messages') \ AssistantRows(messages) # {} =>
             /\ Cardinality(AssistantRows(messages') \ AssistantRows(messages)) = 1
             /\ \E t \in Turns : Commits(t) /\ ~turn[t].is_temporary
       /\ \A sid \in DOMAIN temporary_sessions' :
             LET old == AssistantCount(get_session_messages(temporary_sessions, sid))
                 new == AssistantCount(temporary_sessions'[sid])
             IN new > old =>
                   /\ new = old + 1
                   /\ \E t \in Turns : Commits(t) /\ turn[t].session_id = sid
       /\ \A cid \in {m.conversation_id : m \in messages'} :
             Cardinality(AssistantsOf(messages', cid))
                <= Cardinality(TurnsOn(turn', cid))
       /\ \A sid \in DOMAIN temporary_sessions' :
             AssistantCount(temporary_sessions'[sid])
                <= Cardinality(TurnsOn(turn', sid))
       /\ edit' # edit =>
             AssistantRows(messages') \subseteq AssistantRows(messages)]_vars

\* two requests were processed on one conversation, each has committed its
\* answer, and a user message of that conversation was edited
C33_Witness ==
    /\ turn["t1"].pc = "COMPLETED" /\ turn["t2"].pc = "COMPLETED"
    /\ turn["t1"].conversation = turn["t2"].conversation
    /\ Cardinality(AssistantsOf(messages, turn["t1"].conversation)) = 2
    /\ edit.pc = "DONE"

(***************************************************************************)
(* C34. A chat request (stream or send, is_temporary off) with a positive  *)
(* conversation_id that names no conversation fails with                   *)
(* ConversationNotFoundException before anything is written: no            *)
(* conversation and no message is created, and the provider is not called. *)
(***************************************************************************)
C34_UnknownConversationWritesNothing ==
    [][\A t \in Turns :
        /\ (/\ turn[t].pc = "idle" /\ Acts(t)
            /\ ~turn'[t].is_temporary
            /\ turn'[t].conversation_id > 0
            /\ ~\E c \in conversations : c.id = turn'[t].conversation_id) =>
                /\ turn'[t].pc = "NOT_FOUND"
                /\ turn'[t].chat_history = <<>>
                /\ UNCHANGED <<durable, ephemeral>>
        /\ (turn[t].pc = "idle" /\ turn'[t].pc = "NOT_FOUND") =>
              ~\E c \in conversations : c.id = turn'[t].conversation_id
        /\ turn[t].pc = "NOT_FOUND" => turn'[t] = turn[t]]_vars

\* a stream and a send, both on the id 1 while there is no conversation
C34_Witness ==
    /\ turn["t1"].pc = "NOT_FOUND" /\ turn["t1"].endpoint = "stream"
    /\ turn["t1"].conversation_id = 1
    /\ turn["t2"].pc = "NOT_FOUND" /\ turn["t2"].endpoint = "send"
    /\ turn["t2"].conversation_id = 1
    /\ conversations = {} /\ messages = {}

(***************************************************************************)
(* C35. create_temporary_session() discards no stored turn: whatever       *)
(* calls came before, it leaves the list of every session that was live    *)
(* before the call as it was, a session made by add_message_to_session on  *)
(* an id not issued yet included.                                          *)
(***************************************************************************)
C35_CreateKeepsStoredTurns ==
    [][(Len(calls') = Len(calls) + 1 /\ calls'[Len(calls')].op = "create") =>
          \A sid \in DOMAIN temporary_sessions :
              /\ sid \in DOMAIN temporary_sessions'
              /\ temporary_sessions'[sid] = temporary_sessions[sid]]_vars

(***************************************************************************)
(* C36. Whatever the interleaving of temporary streaming turns with        *)
(* delete_session on the session they write to, a session that is not      *)
(* empty begins with a user turn.                                          *)
(***************************************************************************)
C36_SessionBeginsWithUserTurn ==
    \A sid \in DOMAIN temporary_sessions :
        temporary_sessions[sid] # <<>> => temporary_sessions[sid][1].role = "user"

(***************************************************************************)
(* C37. A successful edit of message M changes M's content and deletes the *)
(* later messages of M's conversation, and nothing else: the messages of   *)
(* the other conversations, the messages of M's conversation with a        *)
(* timestamp up to M's, and M's id, role, conversation_id and timestamp    *)
(* stay as they were, and so does the temporary store.                     *)
(***************************************************************************)
C37_EditChangesOnlyContentAndTail ==
    [][(edit.pc = "FOUND" /\ edit'.pc = "DONE") =>
          \E m0 \in messages :
              /\ m0.id = edit.message_id
              /\ [m0 EXCEPT !.content = edit.content] \in messages'
              /\ \A m \in messages :
                    (\/ m.conversation_id # m0.conversation_id
                     \/ (m.timestamp <= m0.timestamp /\ m.id # m0.id)) =>
                        m \in messages'
              /\ \A n \in messages' : n \in messages \/ n.id = m0.id
              /\ Cardinality({n \in messages' : n.id = m0.id}) = 1
              /\ UNCHANGED <<conversations, ephemeral>>]_vars

\* the edit deleted a later message of its conversation while the other
\* conversation held a message written later still
C37_Witness ==
    /\ edit.pc = "DONE" /\ edit.deleted_count = 1
    /\ Cardinality(conversations) = 2
    /\ \E m, o \in messages :
          /\ m.content = "edited"
          /\ o.conversation_id # m.conversation_id
          /\ o.timestamp > m.timestamp

(***************************************************************************)
(* C38. Two streaming turns that run at the same time on one conversation  *)
(* and both reach the end of their stream lose no write: the conversation  *)
(* holds both user messages and both answers, four messages more than      *)
(* before, each answer with the text of its own stream.                    *)
(***************************************************************************)
BothStreamedOn(cid) ==
    \A t \in Turns :
        /\ turn[t].endpoint = "stream" /\ ~turn[t].is_temporary
        /\ turn[t].conversation = cid
        /\ turn[t].pc = "COMPLETED" /\ turn[t].outcome = "end_of_stream"

C38_ConcurrentTurnsLoseNoWrite ==
    \A cid \in {c.id : c \in conversations} :
        (BothStreamedOn(cid) /\ edit.pc = "idle" /\ del.pc = "idle") =>
            LET rows == {m \in messages : m.conversation_id = cid}
            IN /\ Cardinality(rows) = 4
               /\ {m.id : m \in {x \in rows : x.role = "user"}}
                     = {turn[t].user_message : t \in Turns}
               /\ \E f \in [Turns -> AssistantRows(rows)] :
                     /\ f["t1"] # f["t2"]
                     /\ \A t \in Turns :
                           /\ f[t].content = turn[t].full_response
                           /\ f[t].model_name = turn[t].model
                           /\ f[t].id > turn[t].user_message

\* the second request recorded its user message and committed its answer
\* between the two writes of the first; the two texts differ
C38_Witness ==
    /\ BothStreamedOn(1)
    /\ turn["t1"].full_response # turn["t2"].full_response
    /\ turn["t1"].user_message = 1 /\ turn["t2"].user_message = 2
    /\ \E a2, a1 \in messages :
          /\ a2.id = 3 /\ a2.content = turn["t2"].full_response
          /\ a1.id = 4 /\ a1.content = turn["t1"].full_response
    /\ edit.pc = "idle" /\ del.pc = "idle"

(***************************************************************************)
(* C39. Temporary sessions are isolated from each other: an append, a read *)
(* or a delete on session A leaves the list of every other session B as it *)
(* was, and a temporary streaming turn on A sends the provider the turns   *)
(* stored in A and no other.                                               *)
(***************************************************************************)
OthersKept(a) ==
    \A b \in DOMAIN temporary_sessions \ {a} :
        /\ b \in DOMAIN temporary_sessions'
        /\ temporary_sessions'[b] = temporary_sessions[b]

C39_SessionsIsolated ==
    [][/\ \A t \in Turns : Acts(t) => OthersKept(turn'[t].session_id)
       /\ (\A t \in Turns : ~Acts(t)) =>
             \E a \in DOMAIN temporary_sessions :
                 a \notin DOMAIN temporary_sessions' /\ OthersKept(a)
       /\ \A t \in Turns :
             (CallsUpstream(t) /\ turn'[t].is_temporary) =>
                LET stored == temporary_sessions'[turn'[t].session_id]
                    sent == turn'[t].chat_history
                IN /\ Len(sent) = Len(stored)
                   /\ \A i \in 1..Len(sent) :
                         /\ sent[i].role = stored[i].role
                         /\ IF stored[i].image_url = None
                            THEN sent[i].content = stored[i].content
                            ELSE sent[i].content_parts[1].text = stored[i].content]_vars

\* session -1 was deleted after its turn was completed, while session -2
\* holds the user turn and the answer of the other request
C39_Witness ==
    /\ turn["t1"].is_temporary /\ turn["t1"].session_id = -1
    /\ turn["t1"].pc = "COMPLETED"
    /\ turn["t2"].is_temporary /\ turn["t2"].session_id = -2
    /\ DOMAIN temporary_sessions = {-2}
    /\ Len(temporary_sessions[-2]) = 2

(***************************************************************************)
(* C40. A streaming request with is_temporary set and a positive           *)
(* conversation_id neither reads nor writes the conversation of that id:   *)
(* it is given a new temporary session, its user turn is recorded there,   *)
(* and the provider is sent a history of that one turn.                    *)
(***************************************************************************)
C40_TemporaryIgnoresConversationId ==
    [][\A t \in Turns :
        /\ (/\ turn[t].pc = "idle" /\ Acts(t)
            /\ turn'[t].endpoint = "stream" /\ turn'[t].is_temporary
            /\ turn'[t].conversation_id > 0) =>
               LET sid == turn'[t].session_id
               IN /\ turn'[t].pc = "UPSTREAM_CALLED"
                  /\ sid = next_session_id /\ sid < 0
                  /\ sid \notin DOMAIN temporary_sessions
                  /\ next_session_id' = next_session_id - 1
                  /\ temporary_sessions'[sid] =
                        <<SessionMessage("user", turn'[t].message, None,
                                         turn'[t].image_url)>>
                  /\ turn'[t].chat_history =
                        <<ProviderMessage("user", turn'[t].message,
                                          turn'[t].image_url)>>
                  /\ turn'[t].conversation = NoId
                  /\ UNCHANGED durable
        /\ (Acts(t) /\ turn'[t].is_temporary) => UNCHANGED durable]_vars

\* conversation 1 holds a user message and an answer; a temporary request
\* naming it was given session -1 and a history of its own turn
C40_Witness ==
    /\ Cardinality({m \in messages : m.conversation_id = 1}) = 2
    /\ turn["t2"].is_temporary /\ turn["t2"].conversation_id = 1
    /\ turn["t2"].pc = "UPSTREAM_CALLED"
    /\ turn["t2"].session_id = -1
    /\ Len(turn["t2"].chat_history) = 1
    /\ temporary_sessions[-1][1].content = turn["t2"].message

====
